---- MODULE Spec2Model ----
(***************************************************************************)
(* Model of the level generator of rogue-tank-royale                       *)
(* (levelGenerator: isPositionClear, isWithinMapBoundaries,                *)
(* generateRandomPosition, generateEnemies, generateLevel) and of the      *)
(* game-state store it reads and spawns enemies into.                      *)
(*                                                                         *)
(* Numbers.  Coordinates and distances are fixed-point integers in         *)
(* hundredths of a world unit (Scale == 100), so 0.5 is 50 and the         *)
(* clearance obstacle.size * 2.5 + c is obstacle.size * 250 + c * 100.     *)
(* A comparison  sqrt(dx*dx + dz*dz) < d  is computed as                   *)
(* dx*dx + dz*dz < d*d  (both sides are non-negative).  cos and sin of the *)
(* multiples of PI/8 are taken from a table in thousandths.  Probabilities *)
(* and Math.random() values are in thousandths, speeds in tenths.          *)
(***************************************************************************)
EXTENDS Integers, Sequences, FiniteSets, TLC

VARIABLES
    \* ---- game-state store fields read by the generator
    terrainObstacles,   \* sequence of [position, type, size]
    safeZoneCenter,     \* <<x, z>>
    safeZoneRadius,
    safeZoneActive,
    isTerrainReady,
    isPaused,
    state_enemies,      \* the store's enemies list, entries carry an id
    state_level,        \* the store's level field
    playerTankPosition,
    listeners,          \* subscribed observers in subscription order, one pass id each
    playerHealth,
    playerMaxHealth,
    playerSpeed,        \* in tenths
    playerDamage,
    score,
    powerUps,           \* the store's powerUps list, entries [id, type]
    isGameOver,
    \* ---- generateLevel and the frame callbacks it requests
    calls,              \* number of generateLevel invocations so far
    pass,               \* per invocation: where its generation pass stands
    frameCallbacks,     \* requestAnimationFrame callbacks not yet run, oldest first
    returned,           \* what the last generateLevel invocation returned
    owners,             \* for every entry of state_enemies the invocation that pushed it
    everReady,          \* isTerrainReady has been true
    \* ---- generateRandomPosition (one call, statement by statement)
    s_pc,               \* "idle" | "random" | "grid" | "radial" | "static" | "returned"
    attempts_count,
    gridX, gridZ,       \* loop variables of the grid search
    radius, angle,      \* loop variables of the radial search (angle in PI/8 steps)
    safeIdx,            \* index into safePositions
    result,             \* the returned position, null before the return
    tier,               \* which return statement produced result
    \* ---- generateEnemies (one call)
    g_pc,               \* "idle" | "level1" | "level1Emit" | "type" | "position" | "emit" | "done"
    level,
    playerPosition,
    gridSize,           \* config.gridSize (the gridSize argument of the search)
    enemyCount,         \* config.enemyCount
    enemies,            \* the returned list
    existingPositions,
    turretCount,
    i,
    type, health, speed,
    finalPosition,      \* also validPosition of the level === 1 branch
    via,                \* which assignment produced finalPosition
    origins,            \* via of every entry of enemies, in order
    attempts,
    searchCalls,        \* calls of generateRandomPosition made for the current enemy
    randomDraw          \* the Math.random() value handed to a type draw

storeVars == <<terrainObstacles, safeZoneCenter, safeZoneRadius, safeZoneActive,
               isTerrainReady, isPaused, state_enemies, state_level, playerTankPosition,
               listeners, playerHealth, playerMaxHealth, playerSpeed, playerDamage, score,
               powerUps, isGameOver>>
playerVars == <<playerHealth, playerMaxHealth, playerSpeed, playerDamage, score, powerUps,
                isGameOver>>
levelVars == <<calls, pass, frameCallbacks, returned, owners, everReady>>
searchVars == <<s_pc, attempts_count, gridX, gridZ, radius, angle, safeIdx, result, tier>>
genVars == <<g_pc, level, playerPosition, enemyCount, enemies, turretCount, i,
             type, health, speed, finalPosition, via, origins, attempts, searchCalls>>
vars == <<storeVars, levelVars, searchVars, genVars, randomDraw, gridSize, existingPositions>>

----------------------------------------------------------------------------
\* n world units in hundredths
Scale == 10 * 10

null == <<>>

\* [x, 0.5, z] with x and z given in hundredths
Pos(x, z) == <<x, 50, z>>

MapCenter == Pos(0, 0)

Sq(n) == n * n

\* squared distance in the x-z plane between two positions
Dist2(p, q) == Sq(p[1] - q[1]) + Sq(p[3] - q[3])

Rock(x, z, size) == [position |-> <<x * Scale, 0, z * Scale>>, type |-> "rock", size |-> size]

----------------------------------------------------------------------------
\* isPositionClear: no obstacle closer than obstacle.size * 2.5 + minClearance
rockMultiplier == 250

requiredClearance(obstacle, minClearance) ==
    obstacle.size * rockMultiplier + minClearance * Scale

isPositionClear(x, z, obstacles, minClearance) ==
    \A k \in 1..Len(obstacles) :
        ~ (Dist2(obstacles[k].position, Pos(x, z))
             < Sq(requiredClearance(obstacles[k], minClearance)))

\* isWithinMapBoundaries with the default mapSize = 100
mapSize == 100
buffer == 2

isWithinMapBoundaries(x, z) ==
    LET halfMapSize == (mapSize * Scale) \div 2
    IN  /\ x >= -halfMapSize + buffer * Scale
        /\ x <= halfMapSize - buffer * Scale
        /\ z >= -halfMapSize + buffer * Scale
        /\ z <= halfMapSize - buffer * Scale

\* the separation loop of the random tier (isFarEnough)
minDistanceFromExisting == 5

isFarEnough(x, z, existing) ==
    \A k \in 1..Len(existing) :
        ~ (Dist2(existing[k], Pos(x, z)) < Sq(minDistanceFromExisting * Scale))

----------------------------------------------------------------------------
\* cos(k * PI/8) in thousandths, k = 0..15
CosTable == <<1000, 924, 707, 383, 0, -383, -707, -924,
              -1000, -924, -707, -383, 0, 383, 707, 924>>

Cos(k) == CosTable[(k % 16) + 1]
Sin(k) == Cos(k + 12)

\* c/1000 * r rounded to the nearest hundredth
MulTrig(c, r) ==
    IF c >= 0 THEN (c * r + 500) \div 1000 ELSE -((-c * r + 500) \div 1000)

----------------------------------------------------------------------------
\* Values Math.random() takes in the model, in thousandths
RandomValues == {0, 500}

\* (Math.random() - 0.5) * gridSize, in hundredths
RandomCoord(r, size) == ((r - 500) * size) \div 10

\* default of the attempts parameter of generateRandomPosition
maxSearchAttempts == 300

searchGrid == 10

\* (gridX / searchGrid) * (gridSize * 0.8), in hundredths
GridCoord(g, size) == (g * size * 80) \div searchGrid

\* first radius of the radial search, gridSize / 2, in hundredths
FirstRadius(size) == size * 50

RadialX(rad, a) == MulTrig(Cos(a), rad)
RadialZ(rad, a) == MulTrig(Sin(a), rad)

safePositions == <<Pos(20 * Scale, 20 * Scale), Pos(-20 * Scale, 20 * Scale),
                   Pos(-20 * Scale, -20 * Scale), Pos(20 * Scale, -20 * Scale),
                   Pos(0, 0)>>

\* acceptance test of one random sample (lines 64-86)
RandomAccepts(x, z, obstacles, existing) ==
    /\ isWithinMapBoundaries(x, z)
    /\ isPositionClear(x, z, obstacles, 12)
    /\ isFarEnough(x, z, existing)

\* the grid search with its clearance check left out
GridAccepts_NoClearance(x, z, obstacles) ==
    isWithinMapBoundaries(x, z)

\* acceptance test of one grid cell (lines 99-100)
GridAccepts(x, z, obstacles) ==
    /\ isWithinMapBoundaries(x, z)
    /\ isPositionClear(x, z, obstacles, 4)

\* acceptance test of one radial sample (lines 113-114)
RadialAccepts(x, z, obstacles) ==
    /\ isWithinMapBoundaries(x, z)
    /\ isPositionClear(x, z, obstacles, 3)

\* acceptance test of one static position (line 137)
SafeAccepts(p, obstacles) == isPositionClear(p[1], p[3], obstacles, 3)

----------------------------------------------------------------------------
\* generateRandomPosition, one statement group per action

Return(p, t) ==
    /\ s_pc' = "returned"
    /\ result' = p
    /\ tier' = t

\* the while loop with attempts_count++ missing before its continue statements
RandomSample_NoCount ==
    /\ s_pc = "random"
    /\ attempts_count < maxSearchAttempts
    /\ \E rx \in RandomValues, rz \in RandomValues :
         LET x == RandomCoord(rx, gridSize)
             z == RandomCoord(rz, gridSize)
         IN  IF RandomAccepts(x, z, terrainObstacles, existingPositions)
             THEN /\ Return(Pos(x, z), "random")
                  /\ UNCHANGED attempts_count
             ELSE /\ attempts_count' =
                       IF isWithinMapBoundaries(x, z)
                          /\ isPositionClear(x, z, terrainObstacles, 12)
                       THEN attempts_count + 1 ELSE attempts_count
                  /\ UNCHANGED <<s_pc, result, tier>>
    /\ UNCHANGED <<gridX, gridZ, radius, angle, safeIdx>>
    /\ UNCHANGED <<storeVars, levelVars, randomDraw, genVars, gridSize, existingPositions>>

\* one iteration of the while loop (lines 59-88)
RandomSample ==
    /\ s_pc = "random"
    /\ attempts_count < maxSearchAttempts
    /\ \E rx \in RandomValues, rz \in RandomValues :
         LET x == RandomCoord(rx, gridSize)
             z == RandomCoord(rz, gridSize)
         IN  IF RandomAccepts(x, z, terrainObstacles, existingPositions)
             THEN /\ Return(Pos(x, z), "random")
                  /\ UNCHANGED attempts_count
             ELSE /\ attempts_count' = attempts_count + 1
                  /\ UNCHANGED <<s_pc, result, tier>>
    /\ UNCHANGED <<gridX, gridZ, radius, angle, safeIdx>>
    /\ UNCHANGED <<storeVars, levelVars, randomDraw, genVars, gridSize, existingPositions>>

\* the while loop left by a break at the first rejected sample
RandomExhausted_Break ==
    /\ s_pc = "random"
    /\ attempts_count > 0
    /\ s_pc' = "grid"
    /\ gridX' = -searchGrid
    /\ gridZ' = -searchGrid
    /\ UNCHANGED <<attempts_count, radius, angle, safeIdx, result, tier>>
    /\ UNCHANGED <<storeVars, levelVars, randomDraw, genVars, gridSize, existingPositions>>

\* the while condition fails: fall through to the grid search (lines 90-95)
RandomExhausted ==
    /\ s_pc = "random"
    /\ ~ (attempts_count < maxSearchAttempts)
    /\ s_pc' = "grid"
    /\ gridX' = -searchGrid
    /\ gridZ' = -searchGrid
    /\ UNCHANGED <<attempts_count, radius, angle, safeIdx, result, tier>>
    /\ UNCHANGED <<storeVars, levelVars, randomDraw, genVars, gridSize, existingPositions>>

\* the grid loops with  <  in place of  <=  in both loop conditions
GridSearch_Exclusive ==
    /\ s_pc = "grid"
    /\ IF gridX < searchGrid
       THEN LET x == GridCoord(gridX, gridSize)
                z == GridCoord(gridZ, gridSize)
            IN  IF GridAccepts(x, z, terrainObstacles)
                THEN /\ Return(Pos(x, z), "grid")
                     /\ UNCHANGED <<gridX, gridZ, radius, angle>>
                ELSE /\ IF gridZ + 2 < searchGrid
                        THEN gridZ' = gridZ + 2 /\ gridX' = gridX
                        ELSE gridZ' = -searchGrid /\ gridX' = gridX + 2
                     /\ UNCHANGED <<s_pc, result, tier, radius, angle>>
       ELSE /\ s_pc' = "radial"
            /\ radius' = FirstRadius(gridSize)
            /\ angle' = 0
            /\ UNCHANGED <<gridX, gridZ, result, tier>>
    /\ UNCHANGED <<attempts_count, safeIdx>>
    /\ UNCHANGED <<storeVars, levelVars, randomDraw, genVars, gridSize, existingPositions>>

\* one iteration of the inner grid loop, or the end of the loops (lines 94-108)
GridSearch ==
    /\ s_pc = "grid"
    /\ IF gridX <= searchGrid
       THEN LET x == GridCoord(gridX, gridSize)
                z == GridCoord(gridZ, gridSize)
            IN  IF GridAccepts(x, z, terrainObstacles)
                THEN /\ Return(Pos(x, z), "grid")
                     /\ UNCHANGED <<gridX, gridZ, radius, angle>>
                ELSE /\ IF gridZ + 2 <= searchGrid
                        THEN gridZ' = gridZ + 2 /\ gridX' = gridX
                        ELSE gridZ' = -searchGrid /\ gridX' = gridX + 2
                     /\ UNCHANGED <<s_pc, result, tier, radius, angle>>
       ELSE /\ s_pc' = "radial"
            /\ radius' = FirstRadius(gridSize)
            /\ angle' = 0
            /\ UNCHANGED <<gridX, gridZ, result, tier>>
    /\ UNCHANGED <<attempts_count, safeIdx>>
    /\ UNCHANGED <<storeVars, levelVars, randomDraw, genVars, gridSize, existingPositions>>

\* one iteration of the inner radial loop, or the end of the loops (lines 108-135)
RadialSearch ==
    /\ s_pc = "radial"
    /\ IF radius >= 5 * Scale
       THEN LET x == RadialX(radius, angle)
                z == RadialZ(radius, angle)
            IN  IF RadialAccepts(x, z, terrainObstacles)
                THEN /\ Return(Pos(x, z), "radial")
                     /\ UNCHANGED <<radius, angle, safeIdx>>
                ELSE /\ IF angle + 1 < 16
                        THEN angle' = angle + 1 /\ radius' = radius
                        ELSE angle' = 0 /\ radius' = radius - 5 * Scale
                     /\ UNCHANGED <<s_pc, result, tier, safeIdx>>
       ELSE /\ s_pc' = "static"
            /\ safeIdx' = 1
            /\ UNCHANGED <<radius, angle, result, tier>>
    /\ UNCHANGED <<attempts_count, gridX, gridZ>>
    /\ UNCHANGED <<storeVars, levelVars, randomDraw, genVars, gridSize, existingPositions>>

\* one iteration of the loop over safePositions, or the final return (lines 136-141)
StaticSearch ==
    /\ s_pc = "static"
    /\ IF safeIdx <= Len(safePositions)
       THEN IF SafeAccepts(safePositions[safeIdx], terrainObstacles)
            THEN /\ Return(safePositions[safeIdx], "static")
                 /\ UNCHANGED safeIdx
            ELSE /\ safeIdx' = safeIdx + 1
                 /\ UNCHANGED <<s_pc, result, tier>>
       ELSE /\ Return(Pos(0, 0), "center")
            /\ UNCHANGED safeIdx
    /\ UNCHANGED <<attempts_count, gridX, gridZ, radius, angle>>
    /\ UNCHANGED <<storeVars, levelVars, randomDraw, genVars, gridSize, existingPositions>>

SearchNext ==
    \/ RandomSample
    \/ RandomExhausted
    \/ GridSearch
    \/ RadialSearch
    \/ StaticSearch

----------------------------------------------------------------------------
\* generateRandomPosition as a relation: the set of [position, tier] a call
\* can return for its arguments and the obstacles in the store.

\* the k-th cell of the grid scan, k = 0..120: gridX outer, gridZ inner, step 2
GridCell(k, size) ==
    Pos(GridCoord(-searchGrid + 2 * (k \div (searchGrid + 1)), size),
        GridCoord(-searchGrid + 2 * (k % (searchGrid + 1)), size))

GridCellAccepted(k, size, obstacles) ==
    GridAccepts(GridCell(k, size)[1], GridCell(k, size)[3], obstacles)

\* first accepted cell of the grid scan, null when there is none
GridFirst(size, obstacles) ==
    LET cells == 0..(Sq(searchGrid + 1) - 1)
    IN  IF \E k \in cells : GridCellAccepted(k, size, obstacles)
        THEN GridCell(CHOOSE k \in cells :
                          /\ GridCellAccepted(k, size, obstacles)
                          /\ \A j \in 0..(k - 1) : ~ GridCellAccepted(j, size, obstacles),
                      size)
        ELSE null

\* the k-th sample of the radial scan: radius outer (step -5), angle inner
RadialSample(k, size) ==
    Pos(RadialX(FirstRadius(size) - (k \div 16) * 5 * Scale, k % 16),
        RadialZ(FirstRadius(size) - (k \div 16) * 5 * Scale, k % 16))

RadialSampleAccepted(k, size, obstacles) ==
    RadialAccepts(RadialSample(k, size)[1], RadialSample(k, size)[3], obstacles)

\* number of radii r = gridSize/2, gridSize/2 - 5, ... with r >= 5
RadialRings(size) ==
    IF FirstRadius(size) < 5 * Scale THEN 0
    ELSE (FirstRadius(size) - 5 * Scale) \div (5 * Scale) + 1

\* first accepted sample of the radial scan, null when there is none
RadialFirst(size, obstacles) ==
    LET samples == 0..(16 * RadialRings(size) - 1)
    IN  IF \E k \in samples : RadialSampleAccepted(k, size, obstacles)
        THEN RadialSample(CHOOSE k \in samples :
                              /\ RadialSampleAccepted(k, size, obstacles)
                              /\ \A j \in 0..(k - 1) : ~ RadialSampleAccepted(j, size, obstacles),
                          size)
        ELSE null

\* first clear static position, null when there is none
StaticFirst(obstacles) ==
    LET idx == 1..Len(safePositions)
    IN  IF \E k \in idx : SafeAccepts(safePositions[k], obstacles)
        THEN safePositions[CHOOSE k \in idx :
                               /\ SafeAccepts(safePositions[k], obstacles)
                               /\ \A j \in 1..(k - 1) : ~ SafeAccepts(safePositions[j], obstacles)]
        ELSE null

\* what the code after the while loop returns (lines 90-141)
ReducedSearch(size, obstacles) ==
    LET g == GridFirst(size, obstacles)
        r == RadialFirst(size, obstacles)
        s == StaticFirst(obstacles)
    IN  IF g # null THEN [position |-> g, tier |-> "grid"]
        ELSE IF r # null THEN [position |-> r, tier |-> "radial"]
        ELSE IF s # null THEN [position |-> s, tier |-> "static"]
        ELSE [position |-> Pos(0, 0), tier |-> "center"]

RandomSamples(size) ==
    {Pos(RandomCoord(rx, size), RandomCoord(rz, size)) : rx \in RandomValues, rz \in RandomValues}

generateRandomPosition(size, existing, obstacles) ==
    LET accepted == {p \in RandomSamples(size) : RandomAccepts(p[1], p[3], obstacles, existing)}
    IN  {[position |-> p, tier |-> "random"] : p \in accepted}
        \cup (IF accepted # RandomSamples(size)
              THEN {ReducedSearch(size, obstacles)}
              ELSE {})

----------------------------------------------------------------------------
\* Inputs

\* obstacle layouts of the store
ObstacleLayouts ==
    { <<>>,
      <<Rock(0, 0, 5)>>,
      <<Rock(0, 0, 20)>>,
      <<Rock(0, 0, 5), Rock(20, 20, 1)>>,
      <<Rock(-35, -35, 3)>>,
      <<Rock(30, 30, 1), Rock(-15, 10, 2)>>,
      <<Rock(-20, 0, 22)>> }

\* gridSize arguments of a direct call of generateRandomPosition
SearchGridSizes == {8, 42, 70, 200}

\* existingPositions arguments of a direct call: prefixes of this list
ExistingPool == <<Pos(0, 0), Pos(-21 * Scale, -21 * Scale), Pos(-20 * Scale, 1 * Scale),
                  Pos(35 * Scale, 0), Pos(0, -35 * Scale)>>

MaxExisting == 2

\* an existingPositions argument with an entry next to the first grid cell of
\* gridSize 42
ExistingNearGrid == <<Pos(0, 0), Pos(-33 * Scale, -33 * Scale)>>

ExistingChoices == {SubSeq(ExistingPool, 1, n) : n \in 0..MaxExisting} \cup {ExistingNearGrid}

\* the store fields the generator functions do not read, as the store creates them
\* the player stats, the power-ups and the game-over flag as the store creates
\* them (gameState.ts lines 55-70)
PlayerIdle ==
    /\ playerHealth = 100
    /\ playerMaxHealth = 100
    /\ playerSpeed = 30
    /\ playerDamage = 25
    /\ score = 0
    /\ powerUps = <<>>
    /\ isGameOver = FALSE

StoreIdle ==
    /\ PlayerIdle
    /\ isTerrainReady = TRUE
    /\ isPaused = FALSE
    /\ state_enemies = <<>>
    /\ state_level = 1
    /\ playerTankPosition = Pos(0, 0)
    /\ listeners = <<>>

\* no generateLevel invocation yet
LevelIdle ==
    /\ calls = 0
    /\ pass = <<>>
    /\ frameCallbacks = <<>>
    /\ returned = null
    /\ owners = <<>>
    /\ everReady = isTerrainReady

GenIdle ==
    /\ g_pc = "idle"
    /\ level = 0
    /\ playerPosition = null
    /\ enemyCount = 0
    /\ enemies = <<>>
    /\ turretCount = 0
    /\ i = 0
    /\ type = "none"
    /\ health = 0
    /\ speed = 0
    /\ finalPosition = null
    /\ via = "none"
    /\ origins = <<>>
    /\ attempts = 0
    /\ searchCalls = 0

SearchIdle ==
    /\ s_pc = "idle"
    /\ attempts_count = 0
    /\ gridX = 0
    /\ gridZ = 0
    /\ radius = 0
    /\ angle = 0
    /\ safeIdx = 0
    /\ result = null
    /\ tier = "none"

\* state at the entry of a call generateRandomPosition(gridSize, existingPositions)
InitSearch ==
    /\ terrainObstacles \in ObstacleLayouts
    /\ safeZoneCenter = <<0, 0>>
    /\ safeZoneRadius = 0
    /\ safeZoneActive = FALSE
    /\ gridSize \in SearchGridSizes
    /\ existingPositions \in ExistingChoices
    /\ s_pc = "random"
    /\ attempts_count = 0
    /\ gridX = 0
    /\ gridZ = 0
    /\ radius = 0
    /\ angle = 0
    /\ safeIdx = 0
    /\ result = null
    /\ tier = "none"
    /\ randomDraw = 0
    /\ StoreIdle
    /\ LevelIdle
    /\ GenIdle

SpecSearch == InitSearch /\ [][SearchNext]_vars

SpecSearchFair == SpecSearch /\ WF_vars(SearchNext)

\* the two models of generateRandomPosition agree
SearchAgrees ==
    s_pc = "returned" =>
        [position |-> result, tier |-> tier]
            \in generateRandomPosition(gridSize, existingPositions, terrainObstacles)

----------------------------------------------------------------------------
\* generateEnemies

Min(a, b) == IF a <= b THEN a ELSE b

\* Math.floor(Math.sqrt(n) * num / den): the largest k with (k*den)^2 <= n * num^2
FloorSqrtTimes(n, num, den) ==
    CHOOSE k \in 0..(n * num) :
        /\ Sq(k * den) <= n * Sq(num)
        /\ Sq((k + 1) * den) > n * Sq(num)

baseEnemyCount == 1

\* maxEnemies with a ceiling of 25 instead of 20
maxEnemies_Loose(lvl) == IF lvl >= 40 THEN 25 ELSE 15

\* maxEnemies (line 215)
maxEnemies(lvl) == IF lvl >= 40 THEN 20 ELSE 15

\* config.enemyCount (lines 155-156 and 214-233)
EnemyCountForLevel(lvl) ==
    IF lvl = 1 THEN 1
    ELSE IF lvl <= 10
         THEN Min(baseEnemyCount + FloorSqrtTimes(lvl, 5, 4), maxEnemies(lvl))
         ELSE IF lvl < 40
              THEN Min(baseEnemyCount + FloorSqrtTimes(lvl, 2, 1), maxEnemies(lvl))
              ELSE Min(baseEnemyCount + FloorSqrtTimes(lvl, 23, 10), maxEnemies(lvl))

\* config.gridSize (lines 157 and 235)
GridSizeForLevel(lvl) == Min(40 + lvl * 2, 70)

maxTurrets == 3
turretMaxRegenAttempts == 15
level1MaxAttempts == 30

\* first level with bombers (lines 258 and 261)
bomberLevel == 15

\* probabilities in thousandths (lines 256-258)
turretProbability(lvl) == Min(100 + lvl * 20, 300)
bomberProbability(lvl) ==
    IF lvl >= bomberLevel THEN Min(150 + (lvl - bomberLevel) * 15, 300) ELSE 0

\* the type draw without the turretCount < maxTurrets test
EnemyType_NoCap(lvl, random, turrets) ==
    IF lvl >= bomberLevel /\ random < bomberProbability(lvl) THEN "bomber"
    ELSE IF random < turretProbability(lvl) + bomberProbability(lvl)
         THEN "turret"
         ELSE "tank"

\* the type draw with the turret test against turretProbability alone
EnemyType_TurretBand(lvl, random, turrets) ==
    IF lvl >= bomberLevel /\ random < bomberProbability(lvl) THEN "bomber"
    ELSE IF random < turretProbability(lvl) /\ turrets < maxTurrets
         THEN "turret"
         ELSE "tank"

\* the type chosen for the draw random (lines 261-280)
EnemyType(lvl, random, turrets) ==
    IF lvl >= bomberLevel /\ random < bomberProbability(lvl) THEN "bomber"
    ELSE IF random < turretProbability(lvl) + bomberProbability(lvl) /\ turrets < maxTurrets
         THEN "turret"
         ELSE "tank"

\* health assigned with the type (lines 263, 270-272, 276-278)
EnemyHealth(t, lvl) ==
    CASE t = "bomber" -> 40 + lvl * 3
      [] t = "turret" -> 75 + lvl * 9
      [] OTHER -> 50 + lvl * 9

\* speed in tenths: declared as 1 (line 253), set to 4.0 for a bomber (line 264)
\* and to 1.3 for a tank (line 279); the turret branch does not assign it
EnemySpeed(t) ==
    CASE t = "bomber" -> 40
      [] t = "tank" -> 13
      [] OTHER -> 10

\* the extra validation with the clearance 3 of the search in place of 7
ExtraClear_Weak(p, obstacles) ==
    \A k \in 1..Len(obstacles) :
        ~ (Dist2(obstacles[k].position, p) < Sq(obstacles[k].size * 250 + 3 * Scale))

\* the extra validation of a candidate against the obstacles (lines 175-189,
\* 292-306 and 341-351): no obstacle closer than obstacle.size * 2.5 + 7
ExtraClear(p, obstacles) ==
    \A k \in 1..Len(obstacles) :
        ~ (Dist2(obstacles[k].position, p) < Sq(obstacles[k].size * 250 + 7 * Scale))

\* distanceToCenter <= safeZoneRadius (lines 314-324)
InSafeZone(p, center, rad) ==
    Sq(p[1] - center[1]) + Sq(p[3] - center[2]) <= Sq(rad)

\* angles Math.random() * 2 PI takes in the model, in PI/8 steps
FallbackAngles == {0, 6}

\* the position near the zone center (lines 333-339)
NearCenter(center, rad, a) ==
    LET radiusOffset == Min((rad * 8) \div 10, 5 * Scale)
    IN  Pos(center[1] + MulTrig(Cos(a), radiusOffset),
            center[2] + MulTrig(Sin(a), radiusOffset))

\* values the type draw Math.random() takes in the model, in thousandths
TypeDraws == {0, 139, 140, 149, 150, 300, 449, 450, 990}

\* generateEnemies without the level === 1 branch
GenerateEnemies_NoLevel1 ==
    /\ g_pc = "call"
    /\ enemyCount' = EnemyCountForLevel(level)
    /\ gridSize' = GridSizeForLevel(level)
    /\ enemies' = <<>>
    /\ origins' = <<>>
    /\ existingPositions' = <<playerPosition>>
    /\ turretCount' = 0
    /\ i' = 0
    /\ attempts' = 0
    /\ searchCalls' = 0
    /\ finalPosition' = null
    /\ g_pc' = "type"
    /\ UNCHANGED <<level, playerPosition, type, health, speed, via>>
    /\ UNCHANGED <<storeVars, levelVars, randomDraw, searchVars>>

\* lines 149-161 and 214-247: read the store, derive the config, set up the lists
GenerateEnemies ==
    /\ g_pc = "call"
    /\ enemyCount' = EnemyCountForLevel(level)
    /\ gridSize' = GridSizeForLevel(level)
    /\ enemies' = <<>>
    /\ origins' = <<>>
    /\ existingPositions' = <<playerPosition>>
    /\ turretCount' = 0
    /\ i' = 0
    /\ attempts' = 0
    /\ searchCalls' = 0
    /\ finalPosition' = null
    /\ g_pc' = IF level = 1 THEN "level1" ELSE "type"
    /\ UNCHANGED <<level, playerPosition, type, health, speed, via>>
    /\ UNCHANGED <<storeVars, levelVars, randomDraw, searchVars>>

\* one iteration of the level 1 position loop (lines 168-196)
Level1Attempt ==
    /\ g_pc = "level1"
    /\ finalPosition = null /\ attempts < level1MaxAttempts
    /\ \E c \in generateRandomPosition(gridSize, existingPositions, terrainObstacles) :
         IF ExtraClear(c.position, terrainObstacles)
         THEN /\ finalPosition' = c.position
              /\ via' = c.tier
              /\ UNCHANGED attempts
         ELSE /\ attempts' = attempts + 1
              /\ UNCHANGED <<finalPosition, via>>
    /\ searchCalls' = searchCalls + 1
    /\ UNCHANGED <<g_pc, level, playerPosition, enemyCount, enemies, origins, turretCount, i,
                   type, health, speed>>
    /\ UNCHANGED <<storeVars, levelVars, randomDraw, searchVars, gridSize, existingPositions>>

\* after the loop: fallback, push and return (lines 198-211)
Level1Emit ==
    /\ g_pc = "level1"
    /\ ~ (finalPosition = null /\ attempts < level1MaxAttempts)
    /\ LET validPosition == IF finalPosition = null
                            THEN Pos(20 * Scale, 20 * Scale) ELSE finalPosition
           origin == IF finalPosition = null THEN "level1Fallback" ELSE via
       IN  /\ enemies' = Append(enemies, [position |-> validPosition, health |-> 85,
                                          type |-> "tank", speed |-> 13])
           /\ origins' = Append(origins, origin)
           /\ finalPosition' = validPosition
           /\ via' = origin
    /\ g_pc' = "done"
    /\ UNCHANGED <<level, playerPosition, enemyCount, turretCount, i, type, health, speed,
                   attempts, searchCalls>>
    /\ UNCHANGED <<storeVars, levelVars, randomDraw, searchVars, gridSize, existingPositions>>

\* top of the for body: the type draw (lines 249-283)
TypeDraw ==
    /\ g_pc = "type"
    /\ i < enemyCount
    /\ \E random \in TypeDraws :
         LET t == EnemyType(level, random, turretCount)
         IN  /\ type' = t
             /\ health' = EnemyHealth(t, level)
             /\ speed' = EnemySpeed(t)
             /\ turretCount' = IF t = "turret" THEN turretCount + 1 ELSE turretCount
    /\ finalPosition' = null
    /\ via' = "none"
    /\ attempts' = 0
    /\ searchCalls' = 0
    /\ g_pc' = "position"
    /\ UNCHANGED <<level, playerPosition, enemyCount, enemies, origins, i>>
    /\ UNCHANGED <<storeVars, levelVars, randomDraw, searchVars, gridSize, existingPositions>>

\* the position loop with attempts++ missing before the continue of the
\* failed obstacle re-check
PositionAttempt_NoCount ==
    /\ g_pc = "position"
    /\ finalPosition = null /\ attempts < turretMaxRegenAttempts
    /\ \E c \in generateRandomPosition(gridSize, existingPositions, terrainObstacles) :
         IF ~ ExtraClear(c.position, terrainObstacles)
         THEN UNCHANGED <<attempts, finalPosition, via>>
         ELSE IF type \in {"turret", "tank"} /\ safeZoneActive
              THEN IF InSafeZone(c.position, safeZoneCenter, safeZoneRadius)
                   THEN /\ finalPosition' = c.position
                        /\ via' = c.tier
                        /\ UNCHANGED attempts
                   ELSE /\ attempts' = attempts + 1
                        /\ IF attempts + 1 >= turretMaxRegenAttempts
                           THEN \E a \in FallbackAngles :
                                  LET fallbackPosition ==
                                          NearCenter(safeZoneCenter, safeZoneRadius, a)
                                  IN  IF ExtraClear(fallbackPosition, terrainObstacles)
                                      THEN /\ finalPosition' = fallbackPosition
                                           /\ via' = "nearCenter"
                                      ELSE /\ finalPosition' =
                                                Pos(safeZoneCenter[1], safeZoneCenter[2])
                                           /\ via' = "zoneCenter"
                           ELSE UNCHANGED <<finalPosition, via>>
              ELSE /\ finalPosition' = c.position
                   /\ via' = c.tier
                   /\ UNCHANGED attempts
    /\ searchCalls' = searchCalls + 1
    /\ UNCHANGED <<g_pc, level, playerPosition, enemyCount, enemies, origins, turretCount, i,
                   type, health, speed>>
    /\ UNCHANGED <<storeVars, levelVars, randomDraw, searchVars, gridSize, existingPositions>>

\* one iteration of the position loop (lines 284-366)
PositionAttempt ==
    /\ g_pc = "position"
    /\ finalPosition = null /\ attempts < turretMaxRegenAttempts
    /\ \E c \in generateRandomPosition(gridSize, existingPositions, terrainObstacles) :
         IF ~ ExtraClear(c.position, terrainObstacles)
         THEN /\ attempts' = attempts + 1
              /\ UNCHANGED <<finalPosition, via>>
         ELSE IF type \in {"turret", "tank"} /\ safeZoneActive
              THEN IF InSafeZone(c.position, safeZoneCenter, safeZoneRadius)
                   THEN /\ finalPosition' = c.position
                        /\ via' = c.tier
                        /\ UNCHANGED attempts
                   ELSE /\ attempts' = attempts + 1
                        /\ IF attempts + 1 >= turretMaxRegenAttempts
                           THEN \E a \in FallbackAngles :
                                  LET fallbackPosition ==
                                          NearCenter(safeZoneCenter, safeZoneRadius, a)
                                  IN  IF ExtraClear(fallbackPosition, terrainObstacles)
                                      THEN /\ finalPosition' = fallbackPosition
                                           /\ via' = "nearCenter"
                                      ELSE /\ finalPosition' =
                                                Pos(safeZoneCenter[1], safeZoneCenter[2])
                                           /\ via' = "zoneCenter"
                           ELSE UNCHANGED <<finalPosition, via>>
              ELSE /\ finalPosition' = c.position
                   /\ via' = c.tier
                   /\ UNCHANGED attempts
    /\ searchCalls' = searchCalls + 1
    /\ UNCHANGED <<g_pc, level, playerPosition, enemyCount, enemies, origins, turretCount, i,
                   type, health, speed>>
    /\ UNCHANGED <<storeVars, levelVars, randomDraw, searchVars, gridSize, existingPositions>>

\* the end of the for body dropping an enemy whose position loop found nothing
Emit_SkipOnFailure ==
    /\ g_pc = "position"
    /\ ~ (finalPosition = null /\ attempts < turretMaxRegenAttempts)
    /\ IF finalPosition = null
       THEN UNCHANGED <<existingPositions, enemies, origins, finalPosition, via>>
       ELSE /\ existingPositions' = Append(existingPositions, finalPosition)
            /\ enemies' = Append(enemies, [position |-> finalPosition, health |-> health,
                                           type |-> type, speed |-> speed])
            /\ origins' = Append(origins, via)
            /\ UNCHANGED <<finalPosition, via>>
    /\ i' = i + 1
    /\ g_pc' = "type"
    /\ UNCHANGED <<level, playerPosition, enemyCount, turretCount, type, health, speed,
                   attempts, searchCalls>>
    /\ UNCHANGED <<storeVars, levelVars, randomDraw, searchVars, gridSize>>

\* the end of the for body without the push to existingPositions
Emit_NoAppend ==
    /\ g_pc = "position"
    /\ ~ (finalPosition = null /\ attempts < turretMaxRegenAttempts)
    /\ LET position == IF finalPosition = null THEN Pos(0, 0) ELSE finalPosition
           origin == IF finalPosition = null THEN "emergency" ELSE via
       IN  /\ existingPositions' = existingPositions
           /\ enemies' = Append(enemies, [position |-> position, health |-> health,
                                          type |-> type, speed |-> speed])
           /\ origins' = Append(origins, origin)
           /\ finalPosition' = position
           /\ via' = origin
    /\ i' = i + 1
    /\ g_pc' = "type"
    /\ UNCHANGED <<level, playerPosition, enemyCount, turretCount, type, health, speed,
                   attempts, searchCalls>>
    /\ UNCHANGED <<storeVars, levelVars, randomDraw, searchVars, gridSize>>

\* after the position loop: emergency position, push, i++ (lines 368-384)
Emit ==
    /\ g_pc = "position"
    /\ ~ (finalPosition = null /\ attempts < turretMaxRegenAttempts)
    /\ LET position == IF finalPosition = null THEN Pos(0, 0) ELSE finalPosition
           origin == IF finalPosition = null THEN "emergency" ELSE via
       IN  /\ existingPositions' = Append(existingPositions, position)
           /\ enemies' = Append(enemies, [position |-> position, health |-> health,
                                          type |-> type, speed |-> speed])
           /\ origins' = Append(origins, origin)
           /\ finalPosition' = position
           /\ via' = origin
    /\ i' = i + 1
    /\ g_pc' = "type"
    /\ UNCHANGED <<level, playerPosition, enemyCount, turretCount, type, health, speed,
                   attempts, searchCalls>>
    /\ UNCHANGED <<storeVars, levelVars, randomDraw, searchVars, gridSize>>

\* the for loop ends: return enemies (line 386)
ReturnEnemies ==
    /\ g_pc = "type"
    /\ ~ (i < enemyCount)
    /\ g_pc' = "done"
    /\ UNCHANGED <<level, playerPosition, enemyCount, enemies, origins, turretCount, i,
                   type, health, speed, finalPosition, via, attempts, searchCalls>>
    /\ UNCHANGED <<storeVars, levelVars, randomDraw, searchVars, gridSize, existingPositions>>

EnemiesNext ==
    \/ GenerateEnemies
    \/ Level1Attempt
    \/ Level1Emit
    \/ TypeDraw
    \/ PositionAttempt
    \/ Emit
    \/ ReturnEnemies

\* safe zones of the store: [center, radius, active]
NoZone == [center |-> <<0, 0>>, radius |-> 50 * Scale, active |-> FALSE]
WideZone == [center |-> <<0, 0>>, radius |-> 30 * Scale, active |-> TRUE]
EdgeZone == [center |-> <<46 * Scale, 0>>, radius |-> 10 * Scale, active |-> TRUE]
SmallZone == [center |-> <<30 * Scale, 30 * Scale>>, radius |-> 5 * Scale, active |-> TRUE]

SafeZones == {NoZone, WideZone, EdgeZone, SmallZone}

PlayerPositions == {Pos(0, 0), Pos(-21 * Scale, -21 * Scale)}

\* a level above 2 and below bomberLevel, with four enemies
MaxGenLevel == 6

\* the calls generateEnemies(level, playerPosition) and the store they read:
\* every combination for the levels 1 and 2, a choice of them for the levels
\* with four and with eight enemies
Scenarios ==
    {[level |-> l, obstacles |-> o, zone |-> z, player |-> p] :
        l \in {1, 2}, o \in ObstacleLayouts, z \in SafeZones, p \in PlayerPositions}
    \cup
    {[level |-> MaxGenLevel, obstacles |-> o, zone |-> z, player |-> Pos(0, 0)] :
        o \in {<<>>, <<Rock(-35, -35, 3)>>}, z \in {NoZone, WideZone}}
    \cup
    {[level |-> bomberLevel, obstacles |-> <<Rock(0, 0, 20)>>, zone |-> z, player |-> Pos(0, 0)] :
        z \in {NoZone, WideZone}}

\* state at the entry of a call generateEnemies(level, playerPosition)
InitEnemies ==
    /\ \E sc \in Scenarios :
         /\ terrainObstacles = sc.obstacles
         /\ safeZoneCenter = sc.zone.center
         /\ safeZoneRadius = sc.zone.radius
         /\ safeZoneActive = sc.zone.active
         /\ level = sc.level
         /\ playerPosition = sc.player
    /\ g_pc = "call"
    /\ gridSize = 0
    /\ existingPositions = <<>>
    /\ enemyCount = 0
    /\ enemies = <<>>
    /\ origins = <<>>
    /\ turretCount = 0
    /\ i = 0
    /\ type = "none"
    /\ health = 0
    /\ speed = 0
    /\ finalPosition = null
    /\ via = "none"
    /\ attempts = 0
    /\ searchCalls = 0
    /\ randomDraw = 0
    /\ StoreIdle
    /\ LevelIdle
    /\ SearchIdle

SpecEnemies == InitEnemies /\ [][EnemiesNext]_vars

\* calls of generateEnemies whose position loops run out of attempts: an
\* obstacle covering the whole search area, with and without a safe zone
RetryScenarios ==
    {[level |-> l, obstacles |-> o, zone |-> z, player |-> Pos(0, 0)] :
        l \in {1, 2}, o \in {<<>>, <<Rock(0, 0, 20)>>, <<Rock(-20, 0, 22)>>}, z \in SafeZones}
    \cup
    {[level |-> MaxGenLevel, obstacles |-> <<Rock(0, 0, 20)>>, zone |-> z, player |-> Pos(0, 0)] :
        z \in {NoZone, SmallZone}}

InitRetry ==
    /\ \E sc \in RetryScenarios :
         /\ terrainObstacles = sc.obstacles
         /\ safeZoneCenter = sc.zone.center
         /\ safeZoneRadius = sc.zone.radius
         /\ safeZoneActive = sc.zone.active
         /\ level = sc.level
         /\ playerPosition = sc.player
    /\ g_pc = "call"
    /\ gridSize = 0
    /\ existingPositions = <<>>
    /\ enemyCount = 0
    /\ enemies = <<>>
    /\ origins = <<>>
    /\ turretCount = 0
    /\ i = 0
    /\ type = "none"
    /\ health = 0
    /\ speed = 0
    /\ finalPosition = null
    /\ via = "none"
    /\ attempts = 0
    /\ searchCalls = 0
    /\ randomDraw = 0
    /\ StoreIdle
    /\ LevelIdle
    /\ SearchIdle

\* generateEnemies is one synchronous call: it keeps running until it returns
SpecRetry == InitRetry /\ [][EnemiesNext]_vars /\ WF_vars(EnemiesNext)

\* the enemy count of every level up to MaxLevel: the entry of generateEnemies
MaxLevel == 120

InitCurve ==
    /\ terrainObstacles = <<>>
    /\ safeZoneCenter = NoZone.center
    /\ safeZoneRadius = NoZone.radius
    /\ safeZoneActive = NoZone.active
    /\ level \in 1..MaxLevel
    /\ playerPosition = Pos(0, 0)
    /\ g_pc = "call"
    /\ gridSize = 0
    /\ existingPositions = <<>>
    /\ enemyCount = 0
    /\ enemies = <<>>
    /\ origins = <<>>
    /\ turretCount = 0
    /\ i = 0
    /\ type = "none"
    /\ health = 0
    /\ speed = 0
    /\ finalPosition = null
    /\ via = "none"
    /\ attempts = 0
    /\ searchCalls = 0
    /\ randomDraw = 0
    /\ StoreIdle
    /\ LevelIdle
    /\ SearchIdle

CurveNext == GenerateEnemies

SpecCurve == InitCurve /\ [][CurveNext]_vars

----------------------------------------------------------------------------
\* The type draw on its own: one slot of the for loop of generateEnemies with
\* the level, the Math.random() value and the turret count so far as inputs.

MaxDrawLevel == 30

\* Math.random() values of the draw in thousandths: every multiple of 0.005
DrawValues == {5 * n : n \in 0..199}

\* state at the top of the for body (line 249) for a level above 1
InitDraw ==
    /\ terrainObstacles = <<>>
    /\ safeZoneCenter = NoZone.center
    /\ safeZoneRadius = NoZone.radius
    /\ safeZoneActive = NoZone.active
    /\ level \in 2..MaxDrawLevel
    /\ turretCount \in 0..maxTurrets
    /\ randomDraw \in DrawValues
    /\ playerPosition = Pos(0, 0)
    /\ g_pc = "draw"
    /\ gridSize = GridSizeForLevel(level)
    /\ existingPositions = <<playerPosition>>
    /\ enemyCount = EnemyCountForLevel(level)
    /\ enemies = <<>>
    /\ origins = <<>>
    /\ i = 0
    /\ type = "none"
    /\ health = 0
    /\ speed = 0
    /\ finalPosition = null
    /\ via = "none"
    /\ attempts = 0
    /\ searchCalls = 0
    /\ StoreIdle
    /\ LevelIdle
    /\ SearchIdle

\* the type draw for the value randomDraw (lines 255-280)
DrawType ==
    /\ g_pc = "draw"
    /\ LET t == EnemyType(level, randomDraw, turretCount)
       IN  /\ type' = t
           /\ health' = EnemyHealth(t, level)
           /\ speed' = EnemySpeed(t)
           /\ turretCount' = IF t = "turret" THEN turretCount + 1 ELSE turretCount
    /\ g_pc' = "drawn"
    /\ UNCHANGED <<level, playerPosition, enemyCount, enemies, origins, i, finalPosition, via,
                   attempts, searchCalls>>
    /\ UNCHANGED <<storeVars, levelVars, randomDraw, searchVars, gridSize, existingPositions>>

DrawNext == DrawType

SpecDraw == InitDraw /\ [][DrawNext]_vars

----------------------------------------------------------------------------
\* generateLevel, the observer it subscribes and the frame callback it requests

Range(q) == {q[k] : k \in DOMAIN q}

\* what generateEnemies(1, playerPosition) can return (lines 155-212): one tank
\* at a candidate of the search that passes the extra validation, or at
\* (20, 0.5, 20) when 30 candidates in a row fail it
generateEnemiesLevel1(player, obstacles) ==
    LET candidates == generateRandomPosition(GridSizeForLevel(1), <<player>>, obstacles)
        valid == {c.position : c \in {d \in candidates : ExtraClear(d.position, obstacles)}}
        fallback == IF \E c \in candidates : ~ ExtraClear(c.position, obstacles)
                    THEN {Pos(20 * Scale, 20 * Scale)} ELSE {}
    IN  {<<[position |-> q, health |-> 85, type |-> "tank", speed |-> 13]>> :
            q \in valid \cup fallback}

\* the set call of spawnEnemy with the entries kept in place of the new list
spawnEnemy_Replace(list, enemy, id) ==
    <<[id |-> id, position |-> enemy.position, health |-> enemy.health,
       type |-> enemy.type, speed |-> enemy.speed]>>

\* spawnEnemy (gameState.ts lines 96-102): the new list
\* [...state.enemies, {...enemy, id}]
spawnEnemy(list, enemy, id) ==
    Append(list, [id |-> id, position |-> enemy.position, health |-> enemy.health,
                  type |-> enemy.type, speed |-> enemy.speed])

\* ids Math.random().toString(36).substr(2, 9) takes in the model
EnemyIds == {"id1", "id2"}

\* the observer without its test of state.isTerrainReady
ListenerFires_Always(ready) == TRUE

\* the observer's test (line 415): it acts only when the state it is handed
\* has isTerrainReady true
ListenerFires(ready) == ready

\* the observer without its unsubscribe() call
ListenerUnsubscribes_Never(ready) == FALSE

\* the observer removes itself when it acts (line 416)
ListenerUnsubscribes(ready) == ready

\* a fresh record of an invocation
NewPass(state, ready) ==
    [pc |-> state,                       \* "waiting" | "scheduled" | "done"
     readyAtCall |-> ready,              \* isTerrainReady as the invocation read it
     atCall |-> Len(state_enemies),      \* length of the store's list at the call
     requests |-> IF state = "scheduled" THEN 1 ELSE 0,
                                         \* requestAnimationFrame calls made
     runs |-> 0,                         \* frame callbacks run
     specs |-> 0]                        \* entries its generateEnemies calls returned

\* the store hands its new state to every subscribed observer, in
\* subscription order; each observer that acts requests a frame callback.
\* ps and frames are the pass records and pending callbacks before the
\* observers run, ready is isTerrainReady of the new state.
Notify(ready, ps, frames) ==
    /\ listeners' = IF ListenerUnsubscribes(ready) THEN <<>> ELSE listeners
    /\ frameCallbacks' = IF ListenerFires(ready) THEN frames \o listeners ELSE frames
    /\ pass' = [p \in DOMAIN ps |->
                   IF ListenerFires(ready) /\ p \in Range(listeners)
                   THEN [ps[p] EXCEPT !.pc = "scheduled", !.requests = @ + 1]
                   ELSE ps[p]]

MaxPasses == 2

\* generateLevel running the generation inside the call, without
\* requestAnimationFrame
GenerateLevel_Synchronous ==
    /\ calls < MaxPasses
    /\ calls' = calls + 1
    /\ returned' = [enemies |-> <<>>, powerUps |-> <<>>]
    /\ IF ~ isTerrainReady
       THEN /\ listeners' = Append(listeners, calls + 1)
            /\ pass' = Append(pass, NewPass("waiting", FALSE))
            /\ UNCHANGED <<frameCallbacks, state_enemies, owners>>
       ELSE /\ \E es \in generateEnemiesLevel1(Pos(0, 0), terrainObstacles), id \in EnemyIds :
                 /\ state_enemies' = spawnEnemy(state_enemies, es[1], id)
                 /\ owners' = Append(owners, calls + 1)
                 /\ pass' = Append(pass, [NewPass("done", TRUE) EXCEPT !.runs = 1, !.specs = 1])
            /\ UNCHANGED <<frameCallbacks, listeners>>
    /\ UNCHANGED <<terrainObstacles, safeZoneCenter, safeZoneRadius, safeZoneActive,
                   isTerrainReady, isPaused, state_level, playerTankPosition, everReady>>
    /\ UNCHANGED <<searchVars, genVars, randomDraw, gridSize, existingPositions>>
    /\ UNCHANGED playerVars

\* generateLevel with the ready branch returning without starting generation
GenerateLevel_NoReadyBranch ==
    /\ calls < MaxPasses
    /\ calls' = calls + 1
    /\ returned' = [enemies |-> <<>>, powerUps |-> <<>>]
    /\ listeners' = Append(listeners, calls + 1)
    /\ pass' = Append(pass, NewPass("waiting", isTerrainReady))
    /\ UNCHANGED <<frameCallbacks, state_enemies, owners>>
    /\ UNCHANGED <<terrainObstacles, safeZoneCenter, safeZoneRadius, safeZoneActive,
                   isTerrainReady, isPaused, state_level, playerTankPosition, everReady>>
    /\ UNCHANGED <<searchVars, genVars, randomDraw, gridSize, existingPositions>>
    /\ UNCHANGED playerVars

\* generateLevel with a guard that returns at once while an earlier
\* invocation has not finished
GenerateLevel_Exclusive ==
    /\ calls < MaxPasses
    /\ calls' = calls + 1
    /\ returned' = [enemies |-> <<>>, powerUps |-> <<>>]
    /\ IF \E p \in DOMAIN pass : pass[p].pc # "done"
       THEN /\ pass' = Append(pass, NewPass("waiting", isTerrainReady))
            /\ UNCHANGED <<listeners, frameCallbacks>>
       ELSE IF ~ isTerrainReady
       THEN /\ listeners' = Append(listeners, calls + 1)
            /\ pass' = Append(pass, NewPass("waiting", FALSE))
            /\ UNCHANGED frameCallbacks
       ELSE /\ frameCallbacks' = Append(frameCallbacks, calls + 1)
            /\ pass' = Append(pass, NewPass("scheduled", TRUE))
            /\ UNCHANGED listeners
    /\ UNCHANGED <<terrainObstacles, safeZoneCenter, safeZoneRadius, safeZoneActive,
                   isTerrainReady, isPaused, state_enemies, state_level, playerTankPosition,
                   owners, everReady>>
    /\ UNCHANGED <<searchVars, genVars, randomDraw, gridSize, existingPositions>>
    /\ UNCHANGED playerVars

\* one invocation of generateLevel up to its return (lines 397-433): it reads
\* isTerrainReady, then either subscribes an observer or calls
\* generateEnemiesWhenReady, which only requests a frame callback
GenerateLevel ==
    /\ calls < MaxPasses
    /\ calls' = calls + 1
    /\ returned' = [enemies |-> <<>>, powerUps |-> <<>>]
    /\ IF ~ isTerrainReady
       THEN /\ listeners' = Append(listeners, calls + 1)
            /\ pass' = Append(pass, NewPass("waiting", FALSE))
            /\ UNCHANGED frameCallbacks
       ELSE /\ frameCallbacks' = Append(frameCallbacks, calls + 1)
            /\ pass' = Append(pass, NewPass("scheduled", TRUE))
            /\ UNCHANGED listeners
    /\ UNCHANGED <<terrainObstacles, safeZoneCenter, safeZoneRadius, safeZoneActive,
                   isTerrainReady, isPaused, state_enemies, state_level, playerTankPosition,
                   owners, everReady>>
    /\ UNCHANGED <<searchVars, genVars, randomDraw, gridSize, existingPositions>>
    /\ UNCHANGED playerVars

\* the frame callback generating the enemies and spawning none of them
FrameCallback_NoSpawn ==
    /\ frameCallbacks # <<>>
    /\ LET p == Head(frameCallbacks)
       IN  \E es \in generateEnemiesLevel1(Pos(0, 0), terrainObstacles) :
             /\ pass' = [pass EXCEPT ![p].pc = "done", ![p].runs = @ + 1,
                                     ![p].specs = @ + Len(es)]
             /\ frameCallbacks' = Tail(frameCallbacks)
    /\ UNCHANGED <<terrainObstacles, safeZoneCenter, safeZoneRadius, safeZoneActive,
                   isTerrainReady, isPaused, state_enemies, state_level, playerTankPosition,
                   listeners, owners, calls, returned, everReady>>
    /\ UNCHANGED <<searchVars, genVars, randomDraw, gridSize, existingPositions>>
    /\ UNCHANGED playerVars

\* the frame callback generating for the store's level and player position:
\* the search keeps away from playerTankPosition, and above level 1 the tank
\* gets the health of the general branch
FrameCallback_StoreArgs ==
    /\ frameCallbacks # <<>>
    /\ LET p == Head(frameCallbacks)
       IN  \E es \in generateEnemiesLevel1(playerTankPosition, terrainObstacles),
              id \in EnemyIds :
             /\ state_enemies' =
                    spawnEnemy(state_enemies,
                               IF state_level = 1 THEN es[1]
                               ELSE [es[1] EXCEPT !.health = EnemyHealth("tank", state_level)],
                               id)
             /\ owners' = Append(owners, p)
             /\ Notify(isTerrainReady,
                       [pass EXCEPT ![p].pc = "done", ![p].runs = @ + 1,
                                    ![p].specs = @ + Len(es)],
                       Tail(frameCallbacks))
    /\ UNCHANGED <<terrainObstacles, safeZoneCenter, safeZoneRadius, safeZoneActive,
                   isTerrainReady, isPaused, state_level, playerTankPosition,
                   calls, returned, everReady>>
    /\ UNCHANGED <<searchVars, genVars, randomDraw, gridSize, existingPositions>>
    /\ UNCHANGED playerVars

\* the oldest pending frame callback runs (lines 433-447):
\* generateEnemies(1, [0, 0.5, 0]), then spawnEnemy for every entry; each
\* spawnEnemy is a store change handed to the observers still subscribed
FrameCallback ==
    /\ frameCallbacks # <<>>
    /\ LET p == Head(frameCallbacks)
       IN  \E es \in generateEnemiesLevel1(Pos(0, 0), terrainObstacles), id \in EnemyIds :
             /\ state_enemies' = spawnEnemy(state_enemies, es[1], id)
             /\ owners' = Append(owners, p)
             /\ Notify(isTerrainReady,
                       [pass EXCEPT ![p].pc = "done", ![p].runs = @ + 1,
                                    ![p].specs = @ + Len(es)],
                       Tail(frameCallbacks))
    /\ UNCHANGED <<terrainObstacles, safeZoneCenter, safeZoneRadius, safeZoneActive,
                   isTerrainReady, isPaused, state_level, playerTankPosition,
                   calls, returned, everReady>>
    /\ UNCHANGED <<searchVars, genVars, randomDraw, gridSize, existingPositions>>
    /\ UNCHANGED playerVars

\* a write of isTerrainReady, to either value: the store hands the new state
\* to the observers.  The writer is outside the generator; any write is
\* allowed at any time.
SetTerrainReady ==
    /\ \E ready \in BOOLEAN :
         /\ isTerrainReady' = ready
         /\ everReady' = (everReady \/ ready)
         /\ Notify(ready, pass, frameCallbacks)
    /\ UNCHANGED <<terrainObstacles, safeZoneCenter, safeZoneRadius, safeZoneActive,
                   isPaused, state_enemies, state_level, playerTankPosition,
                   calls, returned, owners>>
    /\ UNCHANGED <<searchVars, genVars, randomDraw, gridSize, existingPositions>>
    /\ UNCHANGED playerVars

\* togglePause (gameState.ts lines 161-164): a store change that leaves
\* isTerrainReady as it is
TogglePause ==
    /\ isPaused' = ~ isPaused
    /\ Notify(isTerrainReady, pass, frameCallbacks)
    /\ UNCHANGED <<terrainObstacles, safeZoneCenter, safeZoneRadius, safeZoneActive,
                   isTerrainReady, state_enemies, state_level, playerTankPosition,
                   calls, returned, owners, everReady>>
    /\ UNCHANGED <<searchVars, genVars, randomDraw, gridSize, existingPositions>>
    /\ UNCHANGED playerVars

LevelNext ==
    \/ GenerateLevel
    \/ FrameCallback
    \/ SetTerrainReady
    \/ TogglePause

\* obstacle layouts of the store while generateLevel runs
LevelLayouts == {<<>>, <<Rock(0, 0, 5)>>, <<Rock(0, 0, 20)>>}

\* the store before the first generateLevel invocation, terrain ready or not
InitLevel ==
    /\ terrainObstacles \in LevelLayouts
    /\ safeZoneCenter = NoZone.center
    /\ safeZoneRadius = NoZone.radius
    /\ safeZoneActive = NoZone.active
    /\ isTerrainReady \in BOOLEAN
    /\ isPaused = FALSE
    /\ state_enemies = <<>>
    /\ state_level = 1
    /\ playerTankPosition = Pos(0, 0)
    /\ listeners = <<>>
    /\ PlayerIdle
    /\ LevelIdle
    /\ randomDraw = 0
    /\ gridSize = 0
    /\ existingPositions = <<>>
    /\ GenIdle
    /\ SearchIdle

SpecLevel == InitLevel /\ [][LevelNext]_vars

\* the same with the one obstacle layout of an empty map
InitLevelOpen ==
    /\ InitLevel
    /\ terrainObstacles = <<>>

\* the browser runs every requested frame callback
SpecLevelFair == InitLevelOpen /\ [][LevelNext]_vars /\ WF_vars(FrameCallback)

----------------------------------------------------------------------------
\* The actions of the game-state store (gameState.ts).  Every action is one
\* set call: the store takes the new field values and hands the new state to
\* the subscribed observers.

Max(a, b) == IF a >= b THEN a ELSE b

\* what every set call of these actions leaves alone, and the notification
StoreSet ==
    /\ Notify(isTerrainReady, pass, frameCallbacks)
    /\ UNCHANGED <<terrainObstacles, safeZoneCenter, safeZoneRadius, safeZoneActive,
                   isTerrainReady, calls, returned, owners, everReady>>
    /\ UNCHANGED <<searchVars, genVars, randomDraw, gridSize, existingPositions>>

\* amount arguments of takeDamage and healPlayer
DamageAmounts == {0, 10, 40, 100}
HealAmounts == {0, 25, 40}

PowerUpTypes == {"health", "speed", "damage"}

MaxStoreLevel == 3
MaxPowerUps == 1
MaxStoreEnemies == 1

\* takeDamage (lines 74-81)
TakeDamage ==
    /\ \E amount \in DamageAmounts :
         LET newHealth == Max(0, playerHealth - amount)
         IN  /\ playerHealth' = newHealth
             /\ isGameOver' = (newHealth <= 0)
    /\ StoreSet
    /\ UNCHANGED <<isPaused, state_enemies, state_level, playerTankPosition,
                   playerMaxHealth, playerSpeed, playerDamage, score, powerUps>>

\* healPlayer without Math.min
HealPlayer_NoClamp ==
    /\ \E amount \in HealAmounts : playerHealth' = playerHealth + amount
    /\ StoreSet
    /\ UNCHANGED <<isPaused, state_enemies, state_level, playerTankPosition,
                   playerMaxHealth, playerSpeed, playerDamage, score, powerUps, isGameOver>>

\* healPlayer (lines 83-89)
HealPlayer ==
    /\ \E amount \in HealAmounts :
         playerHealth' = Min(playerMaxHealth, playerHealth + amount)
    /\ StoreSet
    /\ UNCHANGED <<isPaused, state_enemies, state_level, playerTankPosition,
                   playerMaxHealth, playerSpeed, playerDamage, score, powerUps, isGameOver>>

\* the enemy spec of a direct spawnEnemy call
StoreTank == [position |-> Pos(20 * Scale, 20 * Scale), health |-> 85, type |-> "tank",
              speed |-> 13]

\* spawnEnemy called on the store (lines 96-102)
SpawnEnemy ==
    /\ Len(state_enemies) < MaxStoreEnemies
    /\ \E id \in EnemyIds : state_enemies' = spawnEnemy(state_enemies, StoreTank, id)
    /\ StoreSet
    /\ UNCHANGED <<isPaused, state_level, playerTankPosition, playerVars>>

\* removeEnemy (lines 104-107)
RemoveEnemy ==
    /\ \E id \in EnemyIds :
         state_enemies' = SelectSeq(state_enemies, LAMBDA enemy : enemy.id # id)
    /\ StoreSet
    /\ UNCHANGED <<isPaused, state_level, playerTankPosition, playerVars>>

\* spawnPowerUp (lines 109-115)
SpawnPowerUp ==
    /\ Len(powerUps) < MaxPowerUps
    /\ playerSpeed < 30 + 5 * MaxPowerUps
    /\ playerDamage < 25 + 5 * MaxPowerUps
    /\ \E t \in PowerUpTypes, id \in EnemyIds :
         powerUps' = Append(powerUps, [id |-> id, type |-> t])
    /\ StoreSet
    /\ UNCHANGED <<isPaused, state_enemies, state_level, playerTankPosition,
                   playerHealth, playerMaxHealth, playerSpeed, playerDamage, score,
                   isGameOver>>

\* collectPowerUp for an id that is in the list (lines 117-144); for an id
\* that is not, set is handed the state itself and nothing happens
CollectPowerUp ==
    /\ \E id \in EnemyIds :
         /\ \E k \in DOMAIN powerUps : powerUps[k].id = id
         /\ LET first == CHOOSE k \in DOMAIN powerUps :
                             /\ powerUps[k].id = id
                             /\ \A j \in 1..(k - 1) : powerUps[j].id # id
                powerUp == powerUps[first]
            IN  /\ powerUps' = SelectSeq(powerUps, LAMBDA q : q.id # id)
                /\ playerHealth' = IF powerUp.type = "health"
                                   THEN Min(playerMaxHealth, playerHealth + 25)
                                   ELSE playerHealth
                /\ playerSpeed' = IF powerUp.type = "speed"
                                  THEN playerSpeed + 5 ELSE playerSpeed
                /\ playerDamage' = IF powerUp.type = "damage"
                                   THEN playerDamage + 5 ELSE playerDamage
    /\ StoreSet
    /\ UNCHANGED <<isPaused, state_enemies, state_level, playerTankPosition,
                   playerMaxHealth, score, isGameOver>>

\* restartGame (lines 146-159)
RestartGame ==
    /\ playerHealth' = 100
    /\ playerMaxHealth' = 100
    /\ playerSpeed' = 30
    /\ playerDamage' = 25
    /\ score' = 0
    /\ state_level' = 1
    /\ playerTankPosition' = Pos(0, 0)
    /\ state_enemies' = <<>>
    /\ powerUps' = <<>>
    /\ isGameOver' = FALSE
    /\ isPaused' = FALSE
    /\ StoreSet

\* advanceLevel (lines 166-171)
AdvanceLevel ==
    /\ state_level < MaxStoreLevel
    /\ state_level' = state_level + 1
    /\ playerMaxHealth' = playerMaxHealth + 10
    /\ playerHealth' = playerHealth + 10
    /\ StoreSet
    /\ UNCHANGED <<isPaused, state_enemies, playerTankPosition, playerSpeed, playerDamage,
                   score, powerUps, isGameOver>>

StoreNext ==
    \/ TakeDamage
    \/ HealPlayer
    \/ SpawnEnemy
    \/ RemoveEnemy
    \/ SpawnPowerUp
    \/ CollectPowerUp
    \/ RestartGame
    \/ TogglePause
    \/ AdvanceLevel

\* the store as create() leaves it
InitStore ==
    /\ terrainObstacles = <<>>
    /\ safeZoneCenter = NoZone.center
    /\ safeZoneRadius = NoZone.radius
    /\ safeZoneActive = NoZone.active
    /\ StoreIdle
    /\ LevelIdle
    /\ randomDraw = 0
    /\ gridSize = 0
    /\ existingPositions = <<>>
    /\ GenIdle
    /\ SearchIdle

SpecStore == InitStore /\ [][StoreNext]_vars

----------------------------------------------------------------------------
\* generateLevel on a store whose level and player position have moved on

\* values of playerTankPosition, which the player's tank keeps up to date
PassPlayerPositions == {Pos(0, 0), Pos(10 * Scale, 10 * Scale)}

\* the store after state_level - 1 calls of advanceLevel, the terrain ready
\* or not, before the first generateLevel invocation
InitPass ==
    /\ terrainObstacles \in {<<>>, <<Rock(0, 0, 5)>>}
    /\ safeZoneCenter = NoZone.center
    /\ safeZoneRadius = NoZone.radius
    /\ safeZoneActive = NoZone.active
    /\ isTerrainReady \in BOOLEAN
    /\ isPaused = FALSE
    /\ state_enemies = <<>>
    /\ state_level \in {1, MaxStoreLevel}
    /\ playerTankPosition \in PassPlayerPositions
    /\ listeners = <<>>
    /\ playerHealth = 100 + 10 * (state_level - 1)
    /\ playerMaxHealth = 100 + 10 * (state_level - 1)
    /\ playerSpeed = 30
    /\ playerDamage = 25
    /\ score = 0
    /\ powerUps = <<>>
    /\ isGameOver = FALSE
    /\ LevelIdle
    /\ randomDraw = 0
    /\ gridSize = 0
    /\ existingPositions = <<>>
    /\ GenIdle
    /\ SearchIdle

PassNext ==
    \/ GenerateLevel
    \/ FrameCallback
    \/ SetTerrainReady

SpecPass == InitPass /\ [][PassNext]_vars

\* the relation generateEnemiesLevel1 and the level 1 branch of the
\* statement-by-statement model agree
Level1Agrees ==
    (g_pc = "done" /\ level = 1) =>
        enemies \in generateEnemiesLevel1(playerPosition, terrainObstacles)

----------------------------------------------------------------------------
\* C1: every call of generateRandomPosition returns, and it returns a
\* position; when the random, grid and radial tiers and the five static
\* positions all fail, the position returned is the map center (0, 0.5, 0).
C1_SearchReturns ==
    <>(/\ s_pc = "returned"
       /\ result # null
       /\ (tier = "center" => result = MapCenter))

\* a call in which every tier failed has returned
C1_Witness ==
    /\ s_pc = "returned"
    /\ tier = "center"
    /\ attempts_count = maxSearchAttempts
    /\ \A k \in 1..Len(safePositions) : ~ isPositionClear(safePositions[k][1], safePositions[k][3], terrainObstacles, 3)

\* clearance the tier that returned the position promises
TierClearance(t) ==
    CASE t = "random" -> 12
      [] t = "grid" -> 4
      [] OTHER -> 3

\* C4: a returned position keeps the distance obstacle.size * 2.5 + c from
\* every obstacle, c being 12, 4, 3, 3 for the random, grid, radial and static
\* tier; the only position returned without that distance is the map center,
\* returned after all five static positions were found obstructed.
C4_TierClearance ==
    s_pc = "returned" =>
        IF tier = "center"
        THEN /\ result = MapCenter
             /\ \A k \in 1..Len(safePositions) :
                    ~ isPositionClear(safePositions[k][1], safePositions[k][3], terrainObstacles, 3)
        ELSE isPositionClear(result[1], result[3], terrainObstacles, TierClearance(tier))

\* the grid tier returned a position that the random tier would have rejected
C4_Witness ==
    /\ s_pc = "returned"
    /\ tier = "grid"
    /\ ~ isPositionClear(result[1], result[3], terrainObstacles, 12)

----------------------------------------------------------------------------
\* the positions of the enemies pushed so far
Emitted == 1..Len(enemies)

\* C2: every emitted position has x and z in [-48, 48], the map center
\* (0, 0.5, 0) being the only exception.  The code violates it: the position
\* near the safe-zone center (lines 333-358) is not tested against the map.
C2_WithinMap ==
    \A k \in Emitted :
        \/ isWithinMapBoundaries(enemies[k].position[1], enemies[k].position[3])
        \/ enemies[k].position = MapCenter

\* C3 as stated: every emitted position keeps obstacle.size * 2.5 + 7 from
\* every obstacle unless it is the last-resort map center or the safe-zone
\* center fallback.
C3_Original ==
    \A k \in Emitted :
        origins[k] \notin {"emergency", "zoneCenter"}
            => isPositionClear(enemies[k].position[1], enemies[k].position[3],
                               terrainObstacles, 7)

\* C3 amended: every emitted position keeps obstacle.size * 2.5 + 7 from every
\* obstacle unless it is the last-resort map center, the safe-zone center
\* fallback, or the level 1 fallback (20, 0.5, 20) used after 30 rejected draws.
C3_Clearance ==
    \A k \in Emitted :
        origins[k] \notin {"emergency", "zoneCenter", "level1Fallback"}
            => isPositionClear(enemies[k].position[1], enemies[k].position[3],
                               terrainObstacles, 7)

\* a pass over a map with obstacles emitted a searched position after the
\* extra validation had rejected a candidate
C3_Witness ==
    /\ g_pc = "done"
    /\ terrainObstacles # <<>>
    /\ attempts > 0
    /\ origins[Len(origins)] \in {"random", "grid", "radial", "static"}

\* C5: with the safe zone active, every tank or turret emitted for a level
\* above 1 is within safeZoneRadius of safeZoneCenter or exactly at the
\* center.  The code violates it: when the 15th draw fails the extra
\* validation the loop ends without a position and (0, 0.5, 0) is emitted.
C5_InSafeZone ==
    (safeZoneActive /\ level > 1) =>
        \A k \in Emitted :
            enemies[k].type \in {"tank", "turret"} =>
                \/ InSafeZone(enemies[k].position, safeZoneCenter, safeZoneRadius)
                \/ enemies[k].position = Pos(safeZoneCenter[1], safeZoneCenter[2])

\* C6: a pass never emits more than 3 turrets.
C6_TurretCap ==
    Cardinality({k \in Emitted : enemies[k].type = "turret"}) <= 3

\* a finished pass of four enemies with three turrets
C6_Witness ==
    /\ g_pc = "done"
    /\ Len(enemies) > 3
    /\ Cardinality({k \in Emitted : enemies[k].type = "turret"}) = 3

\* C7: the enemy count is non-decreasing in the level, at most 15 below
\* level 40 and at most 20 from level 40 on.
C7_CountMonotoneBounded ==
    g_pc # "call" =>
        /\ \A l \in 1..level : EnemyCountForLevel(l) <= enemyCount
        /\ level < 40 => enemyCount <= 15
        /\ level >= 40 => enemyCount <= 20

\* the count of a level at which the ceiling of 20 cuts the formula off
C7_Witness ==
    /\ g_pc # "call"
    /\ enemyCount = 20
    /\ baseEnemyCount + FloorSqrtTimes(level, 23, 10) > 20

\* C8: generateEnemies returns exactly enemyCount(level) specs.
C8_ExactCount ==
    g_pc = "done" => Len(enemies) = EnemyCountForLevel(level)

\* a finished pass for a level above 1 in which a position loop found nothing
C8_Witness ==
    /\ g_pc = "done"
    /\ level > 1
    /\ \E k \in Emitted : origins[k] = "emergency"

\* C9: for level 1 the result is one tank with health 85 and speed 1.3.
C9_Level1Tank ==
    (g_pc = "done" /\ level = 1) =>
        /\ Len(enemies) = 1
        /\ enemies[1].type = "tank"
        /\ enemies[1].health = 85
        /\ enemies[1].speed = 13

\* a finished level 1 pass with obstacles and an active safe zone
C9_Witness ==
    /\ g_pc = "done"
    /\ level = 1
    /\ safeZoneActive
    /\ terrainObstacles # <<>>
    /\ Len(enemies) = 1

\* C10: for a level above 1 a tank has health 50 + 9 * level and speed 1.3,
\* a turret health 75 + 9 * level and speed 0, a bomber health 40 + 3 * level
\* and speed 4.0.  The code violates it: a turret is emitted with speed 1.
C10_TypeStats ==
    level > 1 =>
        \A k \in Emitted :
            /\ enemies[k].type = "tank" =>
                  (enemies[k].health = 50 + 9 * level /\ enemies[k].speed = 13)
            /\ enemies[k].type = "turret" =>
                  (enemies[k].health = 75 + 9 * level /\ enemies[k].speed = 0)
            /\ enemies[k].type = "bomber" =>
                  (enemies[k].health = 40 + 3 * level /\ enemies[k].speed = 40)

----------------------------------------------------------------------------
\* C19: generateRandomPosition tries its tiers strictly in the order random
\* sampling, grid, radial, static list.  The grid search starts only after
\* maxSearchAttempts random samples were rejected, the radial search only
\* after every grid cell was rejected, the static list only after every
\* radial sample was rejected, and the final center only after every static
\* position was rejected; a call that returned from one tier never started a
\* later one.
C19_TierOrder ==
    /\ (s_pc \in {"grid", "radial", "static"} \/ tier \in {"grid", "radial", "static", "center"})
          => attempts_count = maxSearchAttempts
    /\ (s_pc \in {"radial", "static"} \/ tier \in {"radial", "static", "center"})
          => \A k \in 0..(Sq(searchGrid + 1) - 1) :
                 ~ GridCellAccepted(k, gridSize, terrainObstacles)
    /\ (s_pc = "static" \/ tier \in {"static", "center"})
          => \A k \in 0..(16 * RadialRings(gridSize) - 1) :
                 ~ RadialSampleAccepted(k, gridSize, terrainObstacles)
    /\ tier = "center"
          => \A k \in 1..Len(safePositions) : ~ SafeAccepts(safePositions[k], terrainObstacles)
    /\ tier = "random"
          => (attempts_count < maxSearchAttempts
              /\ gridX = 0 /\ gridZ = 0 /\ radius = 0 /\ angle = 0 /\ safeIdx = 0)
    /\ tier = "grid" => (radius = 0 /\ angle = 0 /\ safeIdx = 0)
    /\ tier = "radial" => safeIdx = 0

\* a call that returned from the radial search after the random samples and
\* the grid cells were all rejected
C19_Witness ==
    /\ s_pc = "returned"
    /\ tier = "radial"
    /\ attempts_count = maxSearchAttempts
    /\ terrainObstacles # <<>>

----------------------------------------------------------------------------
\* indices of the lattice on one axis: -10, -8, ..., 10
LatticeIndex == {2 * n - searchGrid : n \in 0..searchGrid}

\* the lattice point (a / 10) * (gridSize * 0.8), (b / 10) * (gridSize * 0.8)
LatticePoint(a, b) == Pos(a * gridSize * 8, b * gridSize * 8)

\* boundary check and obstacle clearance 4 of a lattice point
LatticeOk(a, b) ==
    /\ isWithinMapBoundaries(a * gridSize * 8, b * gridSize * 8)
    /\ isPositionClear(a * gridSize * 8, b * gridSize * 8, terrainObstacles, 4)

\* C20 as stated: the lattice of the grid search is 10 x 10, so that the row
\* and the column of every cell it tests are among the first ten.
C20_Original ==
    ((s_pc = "grid" \/ tier = "grid") /\ gridX <= searchGrid) =>
        /\ (gridX + searchGrid) \div 2 < searchGrid
        /\ (gridZ + searchGrid) \div 2 < searchGrid

\* C20 amended: the grid search scans the 11 x 11 lattice of the points
\* (a/10, b/10) * 0.8 * gridSize with a and b in -10, -8, ..., 10, a in the
\* outer and b in the inner loop, both ascending.  It returns the first
\* lattice point that passes the boundary check and obstacle clearance 4,
\* whatever existingPositions holds, and it gives way to the radial search
\* only when no lattice point passes.
C20_GridTier ==
    /\ (s_pc = "returned" /\ tier = "grid") =>
          \E a \in LatticeIndex, b \in LatticeIndex :
              /\ result = LatticePoint(a, b)
              /\ LatticeOk(a, b)
              /\ \A c \in LatticeIndex, d \in LatticeIndex :
                    (c < a \/ (c = a /\ d < b)) => ~ LatticeOk(c, d)
    /\ (s_pc \in {"radial", "static"} \/ tier \in {"radial", "static", "center"}) =>
          \A a \in LatticeIndex, b \in LatticeIndex : ~ LatticeOk(a, b)

\* a return of the grid search from the last row of the lattice
C20_Witness ==
    /\ s_pc = "returned"
    /\ tier = "grid"
    /\ gridX = searchGrid
    /\ result[1] = 8 * gridSize * searchGrid

\* a return of the grid search less than minDistanceFromExisting away from
\* an entry of existingPositions
C20_NoSeparation ==
    /\ s_pc = "returned"
    /\ tier = "grid"
    /\ ~ isFarEnough(result[1], result[3], existingPositions)

----------------------------------------------------------------------------
\* the probabilities as the claim states them, in thousandths
StatedTurretProbability(l) == Min(100 + 20 * l, 300)
StatedBomberProbability(l) == IF l >= 15 THEN Min(150 + 15 * (l - 15), 300) ELSE 0

\* the type as the claim states it for level l, draw r and turret count n
StatedType(l, r, n) ==
    IF l >= 15 /\ r < StatedBomberProbability(l) THEN "bomber"
    ELSE IF r < StatedTurretProbability(l) + StatedBomberProbability(l) /\ n < 3 THEN "turret"
    ELSE "tank"

\* C18: the type drawn for a slot is bomber iff level >= 15 and
\* r < bomberProbability, otherwise turret iff
\* r < turretProbability + bomberProbability and turretCount < 3, otherwise
\* tank, with turretProbability = min(0.1 + 0.02 * level, 0.3) and
\* bomberProbability = min(0.15 + 0.015 * (level - 15), 0.3) from level 15 on
\* and 0 below; no bomber is drawn below level 15.
C18_TypeDraw ==
    [][g_pc = "draw" =>
          /\ type' = StatedType(level, randomDraw, turretCount)
          /\ (type' = "bomber" => level >= 15)]_vars

\* a turret drawn at a level with bombers for a value that is at least
\* turretProbability and below turretProbability + bomberProbability
C18_Witness ==
    /\ g_pc = "drawn"
    /\ type = "turret"
    /\ level >= 15
    /\ randomDraw >= 300

----------------------------------------------------------------------------
\* C16: every call of generateEnemies returns, whatever the level, the
\* obstacles and the safe zone are, and for a level above 1 it calls
\* generateRandomPosition at most turretMaxRegenAttempts = 15 times for one
\* enemy.
C16_RetryBudget ==
    /\ <>(g_pc = "done")
    /\ [](level > 1 => searchCalls <= turretMaxRegenAttempts)

\* a finished pass above level 1 with an active safe zone in which an enemy
\* used up all 15 calls and was placed by a fallback
C16_Witness ==
    /\ g_pc = "done"
    /\ level > 1
    /\ safeZoneActive
    /\ searchCalls = turretMaxRegenAttempts
    /\ \E k \in 1..Len(origins) : origins[k] \in {"zoneCenter", "emergency"}

----------------------------------------------------------------------------
\* entries of the store's list pushed for invocation p
PushedBy(p) == {k \in DOMAIN owners : owners[k] = p}

\* C11: no spawnEnemy call of a generateLevel invocation happens before
\* isTerrainReady has been true, and a store change that leaves isTerrainReady
\* false leaves every waiting invocation waiting.
C11_WaitsForTerrain ==
    /\ []((owners # <<>> \/ frameCallbacks # <<>>) => everReady)
    /\ [][\A p \in DOMAIN pass :
             (pass[p].pc = "waiting" /\ ~ isTerrainReady') => pass'[p].pc = "waiting"]_vars

\* an invocation made while the terrain was not ready has pushed its enemy,
\* after the pause flag changed
C11_Witness ==
    /\ calls >= 1
    /\ ~ pass[1].readyAtCall
    /\ pass[1].pc = "done"
    /\ isPaused
    /\ PushedBy(1) # {}

\* C12: an invocation made while the terrain was not ready requests at most
\* one frame callback and runs at most one generation pass, and its observer
\* is no longer subscribed once it has acted.
C12_AtMostOnce ==
    \A p \in DOMAIN pass :
        ~ pass[p].readyAtCall =>
            /\ pass[p].requests <= 1
            /\ pass[p].runs <= 1
            /\ Cardinality(PushedBy(p)) <= 1
            /\ (pass[p].pc # "waiting" => p \notin Range(listeners))
            /\ Cardinality({k \in DOMAIN frameCallbacks : frameCallbacks[k] = p}) <= 1

\* the first invocation waited and finished; afterwards the terrain was set
\* not ready and ready again, which a second waiting invocation shows, and
\* the pause flag changed
C12_Witness ==
    /\ calls = 2
    /\ ~ pass[1].readyAtCall /\ pass[1].pc = "done" /\ pass[1].requests = 1
    /\ ~ pass[2].readyAtCall /\ pass[2].atCall = 1 /\ pass[2].pc = "done"
    /\ isPaused
    /\ Cardinality(PushedBy(1)) = 1

\* C13: in both branches generateLevel returns empty enemies and powerUps
\* lists and leaves the store's enemy list as it was at the call; the list
\* changes only in a frame callback.
C13_ReturnsEmpty ==
    [][/\ calls' # calls =>
             /\ returned' = [enemies |-> <<>>, powerUps |-> <<>>]
             /\ state_enemies' = state_enemies
       /\ state_enemies' # state_enemies =>
             /\ frameCallbacks # <<>>
             /\ pass'[Head(frameCallbacks)].runs = pass[Head(frameCallbacks)].runs + 1]_vars

\* invocations returned in both branches, and enemies arrived afterwards
C13_Witness ==
    /\ calls = 2
    /\ pass[1].readyAtCall # pass[2].readyAtCall
    /\ returned = [enemies |-> <<>>, powerUps |-> <<>>]
    /\ pass[1].atCall = 0 /\ pass[2].atCall = 0
    /\ Len(state_enemies) = 2

\* the pass of invocation p has run and every spec it produced is in the
\* store's list, pushed by one spawnEnemy call each
Spawned(p) ==
    /\ pass[p].pc = "done"
    /\ pass[p].specs >= 1
    /\ Cardinality(PushedBy(p)) = pass[p].specs
    /\ \A k \in PushedBy(p) : k <= Len(state_enemies)

\* C14: an invocation is waiting only while isTerrainReady is false: once the
\* flag is true at or after the call the invocation has left the waiting
\* state for good; and under the fairness of frame callbacks every
\* invocation that has left the waiting state eventually has run its pass and
\* pushed every spec of it, one spawnEnemy call per spec.
C14_EventuallySpawned ==
    /\ [](\A p \in DOMAIN pass : isTerrainReady => pass[p].pc # "waiting")
    /\ [][\A p \in DOMAIN pass : pass[p].pc # "waiting" => pass'[p].pc # "waiting"]_vars
    /\ []<>(\A p \in DOMAIN pass : pass[p].pc # "waiting" => Spawned(p))

\* an invocation that waited for the terrain has pushed its spec
C14_Witness ==
    /\ calls >= 1
    /\ ~ pass[1].readyAtCall
    /\ pass[1].pc = "done"
    /\ pass[1].specs = 1
    /\ Cardinality(PushedBy(1)) = 1
    /\ Len(state_enemies) >= 1

\* C15: every invocation gets a pass of its own, whatever the state of the
\* earlier invocations: it is waiting with an observer subscribed, or it has a
\* frame callback pending, or its pass has run; a finished pass has pushed
\* its own specs, and the store's list holds the specs of all finished passes.
C15_IndependentPasses ==
    /\ \A p \in DOMAIN pass :
          /\ pass[p].pc = "waiting" => p \in Range(listeners)
          /\ pass[p].pc = "scheduled" => p \in Range(frameCallbacks)
          /\ pass[p].pc = "done" =>
                (pass[p].runs = 1 /\ pass[p].specs = 1
                 /\ Cardinality(PushedBy(p)) = pass[p].specs)
    /\ Len(state_enemies) = Len(owners)
    /\ Len(state_enemies) = Cardinality({p \in DOMAIN pass : pass[p].pc = "done"})

\* two invocations made while the terrain was not ready, before any pass
\* ran, have both finished and the list grew by both passes' specs
C15_Witness ==
    /\ calls = 2
    /\ ~ pass[1].readyAtCall /\ ~ pass[2].readyAtCall
    /\ pass[2].atCall = 0
    /\ pass[1].pc = "done" /\ pass[2].pc = "done"
    /\ owners = <<1, 2>>
    /\ Len(state_enemies) = 2

\* C17: a step of generateLevel or of its frame callback leaves
\* terrainObstacles, the safe-zone fields, isTerrainReady, level and the
\* player position as they are; the only store change is that the enemy list
\* gains one entry at its end for every spawnEnemy call, the entries it had
\* staying in place.
C17_OnlySpawnEnemy ==
    [][(calls' # calls \/ owners' # owners
        \/ \E p \in DOMAIN pass : pass'[p].runs # pass[p].runs) =>
          /\ terrainObstacles' = terrainObstacles
          /\ safeZoneCenter' = safeZoneCenter
          /\ safeZoneRadius' = safeZoneRadius
          /\ safeZoneActive' = safeZoneActive
          /\ isTerrainReady' = isTerrainReady
          /\ state_level' = state_level
          /\ playerTankPosition' = playerTankPosition
          /\ isPaused' = isPaused
          /\ Len(state_enemies') = Len(state_enemies) + (Len(owners') - Len(owners))
          /\ SubSeq(state_enemies', 1, Len(state_enemies)) = state_enemies]_vars

\* a frame callback appended an entry behind an entry of an earlier pass
C17_Witness ==
    /\ Len(state_enemies) = 2
    /\ owners = <<1, 2>>
    /\ state_enemies[1].id # state_enemies[2].id
    /\ pass[2].atCall = 1

----------------------------------------------------------------------------
\* at least 5 units apart
Apart5(p, q) == ~ (Dist2(p, q) < Sq(5 * Scale))

\* C21: in a pass for a level above 1, existingPositions is the player
\* position followed by the emitted positions in emission order, fallback
\* positions included; so an emitted position that the search returned from
\* its random tier is at least 5 units from the player position and from
\* every position emitted before it.
C21_Separation ==
    (level > 1 /\ g_pc \in {"type", "position", "done"}) =>
        /\ existingPositions =
              <<playerPosition>> \o [k \in 1..Len(enemies) |-> enemies[k].position]
        /\ \A k \in Emitted :
              origins[k] = "random" =>
                  /\ Apart5(enemies[k].position, playerPosition)
                  /\ \A j \in 1..(k - 1) : Apart5(enemies[k].position, enemies[j].position)

\* a finished pass in which a random-tier position was emitted after a
\* fallback position and after another random-tier position
C21_Witness ==
    /\ g_pc = "done"
    /\ level > 1
    /\ \E j, k, m \in Emitted :
          /\ j < m /\ k < m
          /\ origins[j] \notin {"random", "grid", "radial", "static", "center"}
          /\ origins[k] = "random"
          /\ origins[m] = "random"

----------------------------------------------------------------------------
\* C23: after any sequence of takeDamage, healPlayer, collectPowerUp,
\* advanceLevel and restartGame calls with non-negative amounts,
\* 0 <= playerHealth <= playerMaxHealth.
C23_HealthInRange ==
    /\ 0 <= playerHealth
    /\ playerHealth <= playerMaxHealth

\* the player at full health after two level advances, the game being over
\* from an earlier takeDamage
C23_Witness ==
    /\ state_level = MaxStoreLevel
    /\ playerMaxHealth = 100 + 10 * (MaxStoreLevel - 1)
    /\ playerHealth = playerMaxHealth
    /\ isGameOver

\* C24: once isGameOver is true it stays true under every action but
\* restartGame.  The code violates it: takeDamage recomputes the flag from the
\* new health, which healPlayer, collectPowerUp and advanceLevel can have
\* raised above 0.
C24_GameOverSticky ==
    [][(isGameOver /\ ~ isGameOver') => RestartGame]_vars

----------------------------------------------------------------------------
\* an entry of the store's list without its id
Unidentified(e) ==
    [position |-> e.position, health |-> e.health, type |-> e.type, speed |-> e.speed]

\* C22: whatever the store's level and player position are, every finished
\* pass of generateLevel has pushed exactly one enemy, and every enemy pushed
\* is a tank with health 85 that generateEnemies(1, [0, 0.5, 0]) can return.
C22_AlwaysLevel1 ==
    /\ \A p \in DOMAIN pass : pass[p].pc = "done" => Cardinality(PushedBy(p)) = 1
    /\ Len(state_enemies) = Len(owners)
    /\ \A k \in DOMAIN state_enemies :
          /\ state_enemies[k].type = "tank"
          /\ state_enemies[k].health = 85
          /\ <<Unidentified(state_enemies[k])>>
                \in generateEnemiesLevel1(Pos(0, 0), terrainObstacles)

\* two passes finished on a store at a level above 1 with the player away
\* from the origin
C22_Witness ==
    /\ state_level > 1
    /\ playerTankPosition # Pos(0, 0)
    /\ calls = 2
    /\ pass[1].pc = "done" /\ pass[2].pc = "done"
    /\ Len(state_enemies) = 2
    /\ state_enemies[2].health = 85

====
